---------------------------- MODULE Spec2Model ----------------------------
(***************************************************************************)
(* Model of the paginated backup engine of cosmos-db-backup: the class     *)
(* CosmosDBBackup (CosmosDBBackup.ts), one instance, the calls of          *)
(* performBackup, the source and destination containers it talks to, and   *)
(* the document pipelines (backupSingleDocument invocations) it starts;    *)
(* and the cleaning workflow of the class DatabaseBackup (index.ts), whose *)
(* pipeline checks the backup and replaces the source document.            *)
(*                                                                         *)
(* JavaScript runs the instance on one thread: a piece of code runs from   *)
(* one await to the next without interruption, and the continuation of a   *)
(* store call runs only while no other code of the instance is running.    *)
(* Every action below is one such piece.  The store is a separate process: *)
(* it applies an upsert at any time after the request was issued.          *)
(***************************************************************************)
EXTENDS Naturals, Sequences, FiniteSets

(* ------------------------------ bounds -------------------------------- *)

\* Largest number of documents in the source container.
MaxDocs == 3

\* Largest page size a caller passes explicitly.
MaxPageSize == 3

\* Request charges reported by the store are 1..MaxCharge.
MaxCharge == 2

\* Largest number of performBackup calls made one after the other on the
\* instance.
MaxCalls == 2

\* Largest number of upserts of an earlier call that are still in flight when
\* the next call is made.
MaxOrphans == 1

(* ------------------------- program constants -------------------------- *)

\* pageSize default of performBackup.
DefaultPageSize == 100

\* new CosmosDBBackup("ContainerBackup", config, "pk")
JobName == "ContainerBackup"

(* ----------------------------- documents ------------------------------ *)

\* Value of the partition-key field (this.partitionKey) of the i-th document.
PkOf(i) == IF i % 2 = 1 THEN "a" ELSE "b"

\* The i-th document of the source container.
SourceDoc(i) == [id |-> i, pk |-> PkOf(i)]

\* The contents the source container may have: N documents, 0 <= N <= MaxDocs.
Sources == { [i \in 1..n |-> SourceDoc(i)] : n \in 0..MaxDocs }

\* A document left in the destination container by an earlier job.
PriorBackup ==
    [id |-> 1, pk |-> PkOf(1), idOriginal |-> 1,
     backupDate |-> "earlier", backupJobName |-> "OlderJob"]

\* The backup document stored under an id of its own.
BackupDocumentWithNewId(document) ==
    [id |-> document.id + MaxDocs, pk |-> document.pk,
     idOriginal |-> document.id, backupDate |-> "now",
     backupJobName |-> JobName]

\* The backup document built without the id of the original.
BackupDocumentWithoutOriginalId(document) ==
    [id |-> document.id, pk |-> document.pk, idOriginal |-> 0,
     backupDate |-> "now", backupJobName |-> JobName]

\* backupDocument: { ...document, idOriginal, backupDate, backupJobName }.
\* new Date().toISOString() is abstracted to the token "now".
BackupDocumentOf(document) ==
    [id |-> document.id, pk |-> document.pk, idOriginal |-> document.id,
     backupDate |-> "now", backupJobName |-> JobName]

\* toContainer.items.upsert: insert, or overwrite the item with the same id
\* and partition key.
Upsert(container, item) ==
    { x \in container : ~(x.id = item.id /\ x.pk = item.pk) } \cup {item}

(* ------------------------------ options ------------------------------- *)

\* An options property is <<>> when the caller's object does not have it and
\* <<v>> when it has it with value v; "undefined" is the JavaScript value.
DryRunInputs == { <<>>, <<"true">>, <<"false">>, <<"undefined">> }
RunModeInputs == { <<>>, <<"single">>, <<"multi">>, <<"batch">>, <<"undefined">> }
PageSizeInputs == { <<>> } \cup { <<s>> : s \in 1..MaxPageSize }

BackupOptions ==
    [dryRun : DryRunInputs, runMode : RunModeInputs, pageSize : PageSizeInputs]

\* { default, ...options }: a property the caller's object has wins, also
\* when its value is undefined.
Spread(default, given) == IF given = <<>> THEN default ELSE given[1]

\* const useOptions = { dryRun: true, runMode: "single", pageSize: 100, ...options }
UseOptions(options) ==
    [dryRun |-> Spread("true", options.dryRun),
     runMode |-> Spread("single", options.runMode),
     pageSize |-> Spread(DefaultPageSize, options.pageSize)]

\* performBackup has not been called: no options object, nothing resolved.
NoOptions == [dryRun |-> <<>>, runMode |-> <<>>, pageSize |-> <<>>]
NoUseOptions == [dryRun |-> "none", runMode |-> "none", pageSize |-> 0]

\* JavaScript truthiness of a dryRun value, as in if (dryRun).
Truthy(v) == v = "true"

(* ------------------------------ run state ----------------------------- *)

\* The object literal of the constructor.
ZeroState ==
    [currentPage |-> 0, currentDocument |-> 0, totalUsedRU |-> 0,
     numberOfBackups |-> 0, numberOfSuccessfulTests |-> 0,
     numberOfUnsuccessfulTests |-> 0, numberOfUpdates |-> 0,
     numberOfDocumentsLookedAt |-> 0]

NoError == [kind |-> "none", doc |-> 0]
InvalidRunMode == [kind |-> "Invalid runMode", doc |-> 0]
NotInitialized == [kind |-> "Query has not been made yet", doc |-> 0]
FetchFailure == [kind |-> "fetchNext failed", doc |-> 0]
UpsertFailure(document) == [kind |-> "upsert failed", doc |-> document.id]
\* The exception of the file log provider (appendFileSync, ensureFileSync).
LogFailure == [kind |-> "log sink failed", doc |-> 0]

\* No summary has been logged.
NoSummary == [emitted |-> FALSE, stats |-> ZeroState]

NoQuery == [open |-> FALSE, pos |-> 0, maxItemCount |-> 0]
NoResponse == [resources |-> <<>>, hasMoreResults |-> FALSE]

VARIABLES
    source,        \* fromContainer: the documents the query returns, in order
    dest,          \* toContainer: the set of items it holds
    destAtStart,   \* toContainer as it was when the instance was constructed
    options,       \* the argument of performBackup
    useOptions,    \* the resolved options of the run
    query,         \* this.query: the cursor and its continuation position
    state,         \* this.state
    defaultState,  \* this.defaultState
    aliased,       \* this.state and this.defaultState are the same object
    pc,            \* where performBackup is: idle, fetch, dispatch, upsert,
                   \* join, done (resolved) or failed (rejected)
    response,      \* the page the loop is working on
    docIdx,        \* index in response.resources of the next document
    pipelines,     \* every backupSingleDocument invocation of the run
    promises,      \* multi mode: the array promises (indices into pipelines)
    joinError,     \* the rejection reason of the Promise.all being awaited
    error,         \* the error performBackup rejected with
    fetches,       \* number of this.query.fetchNext() calls made
    chargeReturned,\* sum of requestCharge over the responses the store returned
    summary,       \* the summary performBackup logged at the end of the run
    errorLog,      \* the errors the run passed to this.error
    failures,      \* the failures the store answered store calls with
    calls,         \* number of performBackup calls made on the instance
    logSink,       \* "ok", or "failing": the file log provider throws
    laterCall      \* a call made while the run is active: none, rejected
                   \* (it threw at once) or fetch (it awaits its first page)

vars ==
    <<source, dest, destAtStart, options, useOptions, query, state,
      defaultState, aliased, pc, response, docIdx, pipelines, promises,
      joinError, error, fetches, chargeReturned, summary, errorLog,
      failures, calls, logSink, laterCall>>

Charges == 1..MaxCharge

Min(a, b) == IF a < b THEN a ELSE b

(* --------------------------- the constructor -------------------------- *)

Init ==
    /\ source \in Sources
    /\ dest \in { {}, {PriorBackup} }
    /\ destAtStart = dest
    /\ options = NoOptions
    /\ useOptions = NoUseOptions
    /\ query = NoQuery
    /\ state = ZeroState
    /\ defaultState = ZeroState
    /\ aliased = TRUE
    /\ pc = "idle"
    /\ response = NoResponse
    /\ docIdx = 0
    /\ pipelines = <<>>
    /\ promises = <<>>
    /\ joinError = NoError
    /\ error = NoError
    /\ fetches = 0
    /\ chargeReturned = 0
    /\ summary = NoSummary
    /\ errorLog = {}
    /\ failures = {}
    /\ calls = 0
    /\ logSink = "ok"
    /\ laterCall = "none"

(* ------------------------------ helpers ------------------------------- *)

\* Number.prototype.toString of a non-negative integer: its decimal digits.
RECURSIVE NumberToString(_)
NumberToString(n) ==
    IF n < 10 THEN <<n>> ELSE Append(NumberToString(n \div 10), n % 10)

\* parseFloat of a string of decimal digits.
RECURSIVE ParseFloat(_)
ParseFloat(s) ==
    IF Len(s) = 0 THEN 0
    ELSE 10 * ParseFloat(SubSeq(s, 1, Len(s) - 1)) + s[Len(s)]

\* collectResponseStats without the addition: the charge is dropped.
CollectResponseStatsDropsCharge(st, requestCharge) == st

\* collectResponseStats:
\*   this.state.totalUsedRU += parseFloat(response.requestCharge.toString())
collectResponseStats(st, requestCharge) ==
    [st EXCEPT !.totalUsedRU = @ + ParseFloat(NumberToString(requestCharge))]

\* An assignment to a property of this.state, which is also this.defaultState
\* as long as resetState has not replaced this.state by a copy.
SetState(st, al) ==
    /\ aliased' = al
    /\ state' = st
    /\ defaultState' = IF al THEN st ELSE defaultState

\* this.fromContainer.items.query(useOptions.query, { maxItemCount: pageSize })
OpenQuery(pageSize) == [open |-> TRUE, pos |-> 0, maxItemCount |-> pageSize]

\* The page this.query.fetchNext() returns: the next maxItemCount documents
\* of the source, and whether documents remain after them.
FetchNext(q) ==
    LET last == Min(q.pos + q.maxItemCount, Len(source))
    IN  [resources |-> SubSeq(source, q.pos + 1, last),
         hasMoreResults |-> last < Len(source),
         pos |-> last]

\* backupDocument without the dry-run return: it always uploads.
BackupDocumentAlwaysUploads(dryRun) == FALSE

\* backupDocument: if (dryRun) { return undefined }
DryRunReturnsEarly(dryRun) == Truthy(dryRun)

\* The loop asks for another page as long as the last one held documents.
LoopContinuesWhileDocuments(resp) == Len(resp.resources) > 0

\* if (response.hasMoreResults) { response = await this.fetchNextPage() }
\* else { done = true }
LoopContinues(resp) == resp.hasMoreResults

\* The wrapper counters leaving numberOfDocumentsLookedAt alone.
CountDocumentForgetsLookedAt(st) ==
    [st EXCEPT !.currentDocument = @ + 1]

\* this.state.currentDocument++ ; this.state.numberOfDocumentsLookedAt++
CountDocument(st) ==
    [st EXCEPT !.currentDocument = @ + 1, !.numberOfDocumentsLookedAt = @ + 1]

\* A pipeline is settled when its promise is fulfilled or rejected.
Settled(p) == p.status \in {"dry", "fulfilled", "rejected"}
Fulfilled(p) == p.status \in {"dry", "fulfilled"}
\* An upsert request that was issued and whose response has not arrived.
InFlight(p) == p.status \in {"sent", "applied"}

\* The pipeline backupSingleDocument(document, dryRun) starts: it logs the
\* page it belongs to, builds the backup document and, unless the run is a
\* dry run, issues the upsert and waits for it.
NewPipeline(document, dryRun) ==
    [doc |-> document, page |-> state.currentPage,
     status |-> IF DryRunReturnsEarly(dryRun) THEN "dry" ELSE "sent",
     reason |-> NoError]

\* The loop going on to the next document without waiting for the upsert.
SingleModeDoesNotAwait(dryRun) == "dispatch"

\* The loop waiting for the response of an upsert also when none was issued.
SingleModeAlwaysAwaits(dryRun) == "upsert"

\* await this.backupSingleDocument(document, dryRun) in the single-mode loop:
\* the loop is suspended until the upsert returns, unless nothing was issued.
SingleModeAwait(dryRun) ==
    IF DryRunReturnsEarly(dryRun) THEN "dispatch" ELSE "upsert"

\* Promise.any: one fulfilled promise is enough.
PromiseAnyFulfilled(ps) ==
    ps = <<>> \/ \E k \in 1..Len(ps) : Fulfilled(pipelines[ps[k]])

\* Promise.allSettled: resolves when every promise is settled, also rejected.
PromiseAllSettled(ps) ==
    \A k \in 1..Len(ps) : Settled(pipelines[ps[k]])

\* await Promise.all(promises) resolves when every promise is fulfilled.
PromiseAllFulfilled(ps) ==
    \A k \in 1..Len(ps) : Fulfilled(pipelines[ps[k]])

\* The single-mode loop swallowing the failure and going on.
SingleModeSwallowsRejection(runMode, at) ==
    IF runMode = "single" THEN "dispatch" ELSE at

\* A rejected pipeline: in single mode the await in the loop throws, the loop
\* and performSingleModeBackup end, and performBackup logs and rethrows; in
\* multi mode nothing awaits the pipeline itself, only Promise.all.
PcAfterPipelineRejected(runMode, at) ==
    IF runMode = "single" THEN "failed" ELSE at

\* The destination of the log calls works (console and log file).
SinkWorks == logSink = "ok"

\* catch (err) { this.error(err); throw err }: the error performBackup
\* rejects with.  this.error prints to the console and then calls the file
\* log provider, whose exception is not caught and replaces err.
Rethrown(err) == IF SinkWorks THEN err ELSE LogFailure

\* Every runMode is run: the final else is missing.
AnyRunModeRuns(runMode) == TRUE

\* if (runMode === "single") ... else if (runMode === "multi") ... else throw
ValidRunMode(runMode) == runMode \in {"single", "multi"}

\* backupDocument without this.state.numberOfBackups++.
CountBackupForgotten(st) == st

\* The counter of replacements incremented in place of numberOfBackups.
CountBackupAsUpdate(st) == [st EXCEPT !.numberOfUpdates = @ + 1]

\* this.state.numberOfBackups++ after the upsert returned.
CountBackup(st) == [st EXCEPT !.numberOfBackups = @ + 1]

\* The rejected fetch is left in place and tried again.
FetchIsRetried(at) == at

\* this.query.fetchNext() rejected: nothing catches it before performBackup.
PcAfterFetchRejected(at) == "failed"

\* resetState assigning the object itself: this.state = this.defaultState.
ResetStateKeepsAlias(al) == al

\* resetState: this.state = { ...this.defaultState } is a new object, so
\* this.state and this.defaultState are no longer the same object.
AliasedAfterReset(al) == FALSE

\* fetchNextPage without this.state.currentPage++.
CountPageForgotten(st) == st

\* this.state.currentPage++ at the start of fetchNextPage.
CountPage(st) == [st EXCEPT !.currentPage = @ + 1]

\* The response of a store call handled while the for loop is running.
ResponsesInterruptLoop == TRUE

\* The continuation of an awaited store call runs only when the running
\* code has reached an await: the for loops over a page have none outside
\* the pipeline they await, so no response is handled between two
\* iterations that do not wait.
LoopSuspended == pc # "dispatch"

\* The summary performBackup logs after the try block.
Summary(st) == [emitted |-> TRUE, stats |-> st]

\* fetchNextPage up to its await: the page counter, the log line, the cursor
\* check and the call of this.query.fetchNext(); made is the number of
\* fetchNext calls of the run so far.
fetchNextPage(st, q, al, made) ==
    /\ SetState(CountPage(st), al)
    /\ IF ~q.open
       THEN /\ pc' = "failed"
            /\ error' = NotInitialized
            /\ fetches' = made
       ELSE /\ pc' = "fetch"
            /\ error' = NoError
            /\ fetches' = made + 1

(* ----------------------------- performBackup -------------------------- *)

\* The body of performBackup(options) up to its first await: the options are
\* resolved, the query is made, the settings are logged, and the mode's
\* function resets the state and asks for the first page; any other runMode
\* throws inside the try block.
CallPerformBackup(opts) ==
    /\ SinkWorks
    /\ options' = opts
    /\ useOptions' = UseOptions(opts)
    /\ query' = OpenQuery(UseOptions(opts).pageSize)
    /\ calls' = calls + 1
    /\ IF ValidRunMode(UseOptions(opts).runMode)
       THEN \* resetState: this.state = { ...this.defaultState }
            /\ fetchNextPage(defaultState, OpenQuery(UseOptions(opts).pageSize),
                             AliasedAfterReset(aliased), 0)
            /\ errorLog' = {}
       ELSE /\ pc' = "failed"
            /\ error' = Rethrown(InvalidRunMode)
            /\ errorLog' = {InvalidRunMode}
            /\ fetches' = 0
            /\ UNCHANGED <<state, defaultState, aliased>>

\* The first call of performBackup on the instance.
performBackup(opts) ==
    /\ pc = "idle"
    /\ CallPerformBackup(opts)
    /\ UNCHANGED <<source, logSink, laterCall, dest, destAtStart, response,
                   docIdx, pipelines, promises, joinError, chargeReturned,
                   summary, failures>>

\* fetchNextPage after its await: the store returned a page.
FetchNextReturns(requestCharge) ==
    /\ pc = "fetch"
    /\ LET page == FetchNext(query)
       IN  /\ query' = [query EXCEPT !.pos = page.pos]
           /\ response' = [resources |-> page.resources,
                           hasMoreResults |-> page.hasMoreResults]
    /\ chargeReturned' = chargeReturned + requestCharge
    /\ SetState(collectResponseStats(state, requestCharge), aliased)
    /\ docIdx' = 1
    /\ pc' = "dispatch"
    /\ UNCHANGED <<source, logSink, laterCall, calls, dest, destAtStart,
                   options, useOptions, pipelines, promises, joinError, error,
                   fetches, summary, errorLog, failures>>

\* this.query.fetchNext() rejected: fetchNextPage, the mode's function and the
\* try block of performBackup end; the error is logged and rethrown.
FetchNextFails ==
    /\ pc = "fetch"
    /\ pc' = PcAfterFetchRejected(pc)
    /\ error' = Rethrown(FetchFailure)
    /\ errorLog' = errorLog \cup {FetchFailure}
    /\ failures' = failures \cup {FetchFailure}
    /\ UNCHANGED <<source, logSink, laterCall, calls, dest, destAtStart,
                   options, useOptions, query, state, defaultState, aliased,
                   response, docIdx, pipelines, promises, joinError, fetches,
                   chargeReturned, summary>>

(* ------------------------ performSingleModeBackup --------------------- *)

\* One iteration of for (const document of response.resources).
SingleModeDocument ==
    /\ pc = "dispatch"
    /\ SinkWorks
    /\ useOptions.runMode = "single"
    /\ docIdx <= Len(response.resources)
    /\ SetState(CountDocument(state), aliased)
    /\ pipelines' = Append(pipelines,
                           NewPipeline(response.resources[docIdx], useOptions.dryRun))
    /\ docIdx' = docIdx + 1
    /\ pc' = SingleModeAwait(useOptions.dryRun)
    /\ UNCHANGED <<source, logSink, laterCall, calls, dest, destAtStart,
                   options, useOptions, query, response, promises, joinError,
                   error, fetches, chargeReturned, summary, errorLog, failures>>

\* After the last document of the page: the next page, or the end of the
\* run, where performBackup logs the summary and resolves.
SingleModePageEnd ==
    /\ pc = "dispatch"
    /\ SinkWorks
    /\ useOptions.runMode = "single"
    /\ docIdx > Len(response.resources)
    /\ IF LoopContinues(response)
       THEN /\ fetchNextPage(state, query, aliased, fetches)
            /\ summary' = summary
       ELSE /\ pc' = "done"
            /\ summary' = Summary(state)
            /\ UNCHANGED <<state, defaultState, aliased, error, fetches>>
    /\ UNCHANGED <<source, logSink, laterCall, calls, dest, destAtStart,
                   options, useOptions, query, response, docIdx, pipelines,
                   promises, joinError, chargeReturned, errorLog, failures>>

(* ------------------------ performMultiModeBackup ---------------------- *)

\* One iteration of the for loop: the wrapper is called and runs up to the
\* await of the upsert; its promise is pushed.
MultiModeDocument ==
    /\ pc = "dispatch"
    /\ SinkWorks
    /\ useOptions.runMode = "multi"
    /\ docIdx <= Len(response.resources)
    /\ SetState(CountDocument(state), aliased)
    /\ pipelines' = Append(pipelines,
                           NewPipeline(response.resources[docIdx], useOptions.dryRun))
    /\ promises' = Append(promises, Len(pipelines) + 1)
    /\ docIdx' = docIdx + 1
    /\ UNCHANGED <<source, logSink, laterCall, calls, dest, destAtStart,
                   options, useOptions, query, pc, response, joinError, error,
                   fetches, chargeReturned, summary, errorLog, failures>>

\* await Promise.all(promises), called when the for loop is over.  A promise
\* of the array that is already rejected rejects it at once.
MultiModeAwaitAll ==
    /\ pc = "dispatch"
    /\ useOptions.runMode = "multi"
    /\ docIdx > Len(response.resources)
    /\ pc' = "join"
    /\ joinError' =
          IF \E k \in 1..Len(promises) : pipelines[promises[k]].status = "rejected"
          THEN LET k == CHOOSE k \in 1..Len(promises) :
                          /\ pipelines[promises[k]].status = "rejected"
                          /\ \A j \in 1..(k - 1) :
                                pipelines[promises[j]].status # "rejected"
               IN  pipelines[promises[k]].reason
          ELSE NoError
    /\ UNCHANGED <<source, logSink, laterCall, calls, dest, destAtStart,
                   options, useOptions, query, state, defaultState, aliased,
                   response, docIdx, pipelines, promises, error, fetches,
                   chargeReturned, summary, errorLog, failures>>

\* Promise.all resolved: the page is done; the next page, or the end of the
\* run, where performBackup logs the summary and resolves.
PromiseAllResolves ==
    /\ pc = "join"
    /\ SinkWorks
    /\ PromiseAllFulfilled(promises)
    /\ IF LoopContinues(response)
       THEN /\ fetchNextPage(state, query, aliased, fetches)
            /\ summary' = summary
       ELSE /\ pc' = "done"
            /\ summary' = Summary(state)
            /\ UNCHANGED <<state, defaultState, aliased, error, fetches>>
    /\ UNCHANGED <<source, logSink, laterCall, calls, dest, destAtStart,
                   options, useOptions, query, response, docIdx, pipelines,
                   promises, joinError, chargeReturned, errorLog, failures>>

\* Promise.all rejected with the reason of the first promise that rejected:
\* performMultiModeBackup ends, performBackup logs the error and rethrows.
PromiseAllRejects ==
    /\ pc = "join"
    /\ joinError # NoError
    /\ pc' = "failed"
    /\ error' = Rethrown(joinError)
    /\ errorLog' = errorLog \cup {joinError}
    /\ UNCHANGED <<source, logSink, laterCall, calls, dest, destAtStart,
                   options, useOptions, query, state, defaultState, aliased,
                   response, docIdx, pipelines, promises, joinError, fetches,
                   chargeReturned, summary, failures>>

(* --------------------- the upsert of backupDocument ------------------- *)

\* The single-mode loop is waiting for pipeline i.
AwaitedByLoop(i) == pc = "upsert" /\ i = Len(pipelines)

\* The Promise.all being awaited holds the promise of pipeline i.
AwaitedByPromiseAll(i) ==
    pc = "join" /\ \E k \in 1..Len(promises) : promises[k] = i

\* The destination container applies the upsert of pipeline i.
StoreAppliesUpsert(i) ==
    /\ pipelines[i].status = "sent"
    /\ dest' = Upsert(dest, BackupDocumentOf(pipelines[i].doc))
    /\ pipelines' = [pipelines EXCEPT ![i].status = "applied"]
    /\ UNCHANGED <<source, logSink, laterCall, calls, destAtStart, options,
                   useOptions, query, state, defaultState, aliased, pc,
                   response, docIdx, promises, joinError, error, fetches,
                   chargeReturned, summary, errorLog, failures>>

\* backupDocument after its await: the upsert returned a response.  In single
\* mode the loop, which was waiting for this pipeline, goes on.
UpsertReturns(i, requestCharge) ==
    /\ LoopSuspended
    /\ SinkWorks
    /\ pipelines[i].status = "applied"
    /\ chargeReturned' = chargeReturned + requestCharge
    /\ SetState(CountBackup(collectResponseStats(state, requestCharge)), aliased)
    /\ pipelines' = [pipelines EXCEPT ![i].status = "fulfilled"]
    /\ pc' = IF AwaitedByLoop(i) THEN "dispatch" ELSE pc
    /\ UNCHANGED <<source, logSink, laterCall, calls, dest, destAtStart,
                   options, useOptions, query, response, docIdx, promises,
                   joinError, error, fetches, summary, errorLog, failures>>

\* The upsert of pipeline i rejected: the pipeline's promise rejects.  The
\* single-mode loop that awaits it throws and performBackup logs and
\* rethrows; a Promise.all that holds it rejects if it has not yet.
UpsertFails(i) ==
    /\ LoopSuspended
    /\ InFlight(pipelines[i])
    /\ pipelines' = [pipelines EXCEPT ![i].status = "rejected",
                                      ![i].reason = UpsertFailure(pipelines[i].doc)]
    /\ failures' = failures \cup {UpsertFailure(pipelines[i].doc)}
    /\ pc' = IF AwaitedByLoop(i)
             THEN PcAfterPipelineRejected(useOptions.runMode, pc) ELSE pc
    /\ error' = IF AwaitedByLoop(i)
                THEN Rethrown(UpsertFailure(pipelines[i].doc)) ELSE error
    /\ errorLog' = IF AwaitedByLoop(i)
                   THEN errorLog \cup {UpsertFailure(pipelines[i].doc)}
                   ELSE errorLog
    /\ joinError' = IF AwaitedByPromiseAll(i) /\ joinError = NoError
                    THEN UpsertFailure(pipelines[i].doc) ELSE joinError
    /\ UNCHANGED <<source, logSink, laterCall, calls, dest, destAtStart,
                   options, useOptions, query, state, defaultState, aliased,
                   response, docIdx, promises, fetches, chargeReturned,
                   summary>>

(* ------------------------- calls after the first --------------------- *)

\* The options of a call made after the first one: the caller states dryRun
\* and runMode (a dry run or not; single, multi or an invalid mode) and
\* keeps the page size of the call before.
LaterOptions ==
    { o \in BackupOptions : /\ o.dryRun \in { <<"true">>, <<"false">> }
                            /\ o.runMode \in { <<"single">>, <<"multi">>, <<"batch">> }
                            /\ o.pageSize = options.pageSize }

\* performBackup called again on the instance after the earlier call
\* resolved or rejected.  The locals of the earlier call are gone; upserts of
\* the earlier call that are still in flight (a multi-mode run that
\* rejected) stay in flight.  The history of the run starts anew.
performBackupAgain(opts) ==
    /\ pc \in {"done", "failed"}
    /\ laterCall = "none"
    /\ calls < MaxCalls
    /\ Len(SelectSeq(pipelines, InFlight)) <= MaxOrphans
    /\ CallPerformBackup(opts)
    /\ pipelines' = SelectSeq(pipelines, InFlight)
    /\ response' = NoResponse
    /\ docIdx' = 0
    /\ promises' = <<>>
    /\ joinError' = NoError
    /\ destAtStart' = dest
    /\ chargeReturned' = 0
    /\ summary' = NoSummary
    /\ failures' = {}
    /\ UNCHANGED <<source, logSink, laterCall, dest>>

\* performBackup called on the instance while the earlier call is suspended
\* at the await of an upsert or of Promise.all.  Nothing in performBackup
\* looks whether a run is active: the later call runs up to its first await.
\* It replaces this.query; with a valid runMode it resets this.state and
\* asks for its first page, with any other runMode it throws to its caller.
\* useOptions, response and the loop variables are locals of the earlier
\* call and stay as they are.
performBackupWhileRunning(opts) ==
    /\ pc \in {"upsert", "join"}
    /\ laterCall = "none"
    /\ calls < MaxCalls
    /\ SinkWorks
    /\ calls' = calls + 1
    /\ query' = OpenQuery(UseOptions(opts).pageSize)
    /\ IF ValidRunMode(UseOptions(opts).runMode)
       THEN /\ SetState(CountPage(defaultState),
                        AliasedAfterReset(aliased))
            /\ laterCall' = "fetch"
            /\ errorLog' = errorLog
       ELSE /\ laterCall' = "rejected"
            /\ errorLog' = errorLog \cup {InvalidRunMode}
            /\ UNCHANGED <<state, defaultState, aliased>>
    /\ UNCHANGED <<source, logSink, dest, destAtStart, options, useOptions, pc,
                   response, docIdx, pipelines, promises, joinError, error,
                   fetches, chargeReturned, summary, failures>>

(* ------------------------- a failing log sink ------------------------- *)

\* The log file can no longer be written: from now on appendFileSync throws
\* in the file log provider, and with it every this.log and this.error call
\* that has a message, after the console got the line.
LogSinkBreaks ==
    /\ logSink = "ok"
    /\ logSink' = "failing"
    /\ UNCHANGED <<source, dest, destAtStart, options, useOptions, query, state,
                   defaultState, aliased, pc, response, docIdx, pipelines,
                   promises, joinError, error, fetches, chargeReturned, summary,
                   errorLog, failures, calls, laterCall>>

\* performBackup with a failing sink: this.log("") appends nothing, the next
\* log line throws, before the try block, after this.query was assigned.
performBackupLogThrows(opts) ==
    /\ pc = "idle"
    /\ ~SinkWorks
    /\ options' = opts
    /\ useOptions' = UseOptions(opts)
    /\ query' = OpenQuery(UseOptions(opts).pageSize)
    /\ calls' = calls + 1
    /\ pc' = "failed"
    /\ error' = LogFailure
    /\ UNCHANGED <<source, dest, destAtStart, state, defaultState, aliased,
                   response, docIdx, pipelines, promises, joinError, fetches,
                   chargeReturned, summary, errorLog, failures, logSink,
                   laterCall>>

\* Single mode, one iteration with a failing sink: the counters are
\* incremented, the log line of backupSingleDocument throws, the await in the
\* loop throws, and this.error in the catch block throws in turn.
SingleModeDocumentLogThrows ==
    /\ pc = "dispatch"
    /\ ~SinkWorks
    /\ useOptions.runMode = "single"
    /\ docIdx <= Len(response.resources)
    /\ SetState(CountDocument(state), aliased)
    /\ pc' = "failed"
    /\ error' = Rethrown(LogFailure)
    /\ errorLog' = errorLog \cup {LogFailure}
    /\ UNCHANGED <<source, dest, destAtStart, options, useOptions, query,
                   response, docIdx, pipelines, promises, joinError, fetches,
                   chargeReturned, summary, failures, calls, logSink,
                   laterCall>>

\* Single mode, after the last document of the page, with a failing sink:
\* the log line of fetchNextPage throws after currentPage++, or, at the end
\* of the run, the first summary line throws after the try block.
SingleModePageEndLogThrows ==
    /\ pc = "dispatch"
    /\ ~SinkWorks
    /\ useOptions.runMode = "single"
    /\ docIdx > Len(response.resources)
    /\ IF LoopContinues(response)
       THEN /\ SetState(CountPage(state), aliased)
            /\ errorLog' = errorLog \cup {LogFailure}
       ELSE /\ errorLog' = errorLog
            /\ UNCHANGED <<state, defaultState, aliased>>
    /\ pc' = "failed"
    /\ error' = Rethrown(LogFailure)
    /\ UNCHANGED <<source, dest, destAtStart, options, useOptions, query,
                   response, docIdx, pipelines, promises, joinError, fetches,
                   chargeReturned, summary, failures, calls, logSink,
                   laterCall>>

\* Multi mode, one iteration with a failing sink: the wrapper increments the
\* counters, the log line of backupSingleDocument throws and the wrapper's
\* promise is rejected when it is pushed; no upsert is issued.
MultiModeDocumentLogThrows ==
    /\ pc = "dispatch"
    /\ ~SinkWorks
    /\ useOptions.runMode = "multi"
    /\ docIdx <= Len(response.resources)
    /\ SetState(CountDocument(state), aliased)
    /\ pipelines' = Append(pipelines,
                           [doc |-> response.resources[docIdx],
                            page |-> state.currentPage,
                            status |-> "rejected", reason |-> LogFailure])
    /\ promises' = Append(promises, Len(pipelines) + 1)
    /\ docIdx' = docIdx + 1
    /\ UNCHANGED <<source, dest, destAtStart, options, useOptions, query, pc,
                   response, joinError, error, fetches, chargeReturned,
                   summary, errorLog, failures, calls, logSink, laterCall>>

\* Promise.all resolved and the sink fails: the line "Done with page" throws
\* in the try block, and this.error in the catch block throws in turn.
PromiseAllResolvesLogThrows ==
    /\ pc = "join"
    /\ ~SinkWorks
    /\ PromiseAllFulfilled(promises)
    /\ pc' = "failed"
    /\ error' = Rethrown(LogFailure)
    /\ errorLog' = errorLog \cup {LogFailure}
    /\ UNCHANGED <<source, dest, destAtStart, options, useOptions, query, state,
                   defaultState, aliased, response, docIdx, pipelines,
                   promises, joinError, fetches, chargeReturned, summary,
                   failures, calls, logSink, laterCall>>

\* The upsert of pipeline i returned and the sink fails: the log line after
\* the await throws before collectResponseStats and numberOfBackups++, and
\* the pipeline's promise rejects although the item was written.
UpsertReturnsLogThrows(i, requestCharge) ==
    /\ LoopSuspended
    /\ ~SinkWorks
    /\ pipelines[i].status = "applied"
    /\ chargeReturned' = chargeReturned + requestCharge
    /\ pipelines' = [pipelines EXCEPT ![i].status = "rejected",
                                      ![i].reason = LogFailure]
    /\ pc' = IF AwaitedByLoop(i)
             THEN PcAfterPipelineRejected(useOptions.runMode, pc) ELSE pc
    /\ error' = IF AwaitedByLoop(i) THEN Rethrown(LogFailure) ELSE error
    /\ errorLog' = IF AwaitedByLoop(i) THEN errorLog \cup {LogFailure}
                   ELSE errorLog
    /\ joinError' = IF AwaitedByPromiseAll(i) /\ joinError = NoError
                    THEN LogFailure ELSE joinError
    /\ UNCHANGED <<source, dest, destAtStart, options, useOptions, query, state,
                   defaultState, aliased, response, docIdx, promises, fetches,
                   summary, failures, calls, logSink, laterCall>>

(* ----------------- the cleaning workflow (DatabaseBackup) ------------- *)

\* performDataCleaning, fetchNextPage, resetState, collectResponseStats and
\* the two page loops of DatabaseBackup have the statements of their
\* CosmosDBBackup counterparts; what differs is the pipeline of a document:
\* backupDocument, checkIfDocumentExists, replaceDocumentWithCleanedDocument.

\* The caller's transformation of a document.
DocumentCleaner(document) == [id |-> document.id, pk |-> document.pk, cleaned |-> TRUE]

\* const cleanedDocument = { ...newDocument, backupJobName: this.name }
CleanedDocumentOf(newDocument) ==
    [id |-> newDocument.id, pk |-> newDocument.pk,
     cleaned |-> newDocument.cleaned, backupJobName |-> JobName]

\* fromContainer.item(oldDocument.id, oldDocument[partitionKey]).replace(item)
Replace(container, oldDocument, item) ==
    [k \in 1..Len(container) |->
        IF container[k].id = oldDocument.id /\ container[k].pk = oldDocument.pk
        THEN item ELSE container[k]]

\* SELECT VALUE COUNT(1) FROM c WHERE c.id = id and c.<partitionKey> = pk
CountQuery(container, document) ==
    Cardinality({ x \in container : x.id = document.id /\ x.pk = document.pk })

\* The gate passing whatever the count is.
BackupAlwaysExists(count) == TRUE

\* const backupExists = count === 1
BackupExists(count) == count = 1

\* this.state.numberOfUpdates++
CountUpdate(st) == [st EXCEPT !.numberOfUpdates = @ + 1]

ExistenceQueryFailure(document) ==
    [kind |-> "existence query failed", doc |-> document.id]
ReplaceFailure(document) == [kind |-> "replace failed", doc |-> document.id]

\* The pipeline backupSingleDocument(document, dryRun) of the cleaning
\* workflow starts: it logs, and backupDocument builds the backup document
\* and returns (dry run) or issues the upsert; in both cases
\* backupSingleDocument is suspended at its first await.
NewCleaningPipeline(document, dryRun) ==
    [doc |-> document, page |-> state.currentPage,
     status |-> IF DryRunReturnsEarly(dryRun) THEN "dryrun" ELSE "sent",
     reason |-> NoError, checked |-> FALSE, count |-> 0]

\* The pipeline i ended: the loop that awaits it goes on.
PcAfterPipelineFulfilled(i) == IF AwaitedByLoop(i) THEN "dispatch" ELSE pc

\* A store call of pipeline i rejected with err: the pipeline's promise
\* rejects, as in UpsertFails.
PipelineRejects(i, err) ==
    /\ pipelines' = [pipelines EXCEPT ![i].status = "rejected", ![i].reason = err]
    /\ failures' = failures \cup {err}
    /\ pc' = IF AwaitedByLoop(i)
             THEN PcAfterPipelineRejected(useOptions.runMode, pc) ELSE pc
    /\ error' = IF AwaitedByLoop(i) THEN Rethrown(err) ELSE error
    /\ errorLog' = IF AwaitedByLoop(i) THEN errorLog \cup {err} ELSE errorLog
    /\ joinError' = IF AwaitedByPromiseAll(i) /\ joinError = NoError
                    THEN err ELSE joinError

\* performDataCleaning(options), from the call to the first await of the
\* mode's function in the timer callback.
performDataCleaning(opts) ==
    /\ pc = "idle"
    /\ CallPerformBackup(opts)
    /\ UNCHANGED <<source, logSink, laterCall, dest, destAtStart, response,
                   docIdx, pipelines, promises, joinError, chargeReturned,
                   summary, failures>>

\* performSingleModeCleaning, one iteration of the for loop: the loop awaits
\* the pipeline, also in a dry run.
CleaningSingleModeDocument ==
    /\ pc = "dispatch"
    /\ useOptions.runMode = "single"
    /\ docIdx <= Len(response.resources)
    /\ SetState(CountDocument(state), aliased)
    /\ pipelines' = Append(pipelines,
                           NewCleaningPipeline(response.resources[docIdx],
                                               useOptions.dryRun))
    /\ docIdx' = docIdx + 1
    /\ pc' = "upsert"
    /\ UNCHANGED <<source, logSink, laterCall, calls, dest, destAtStart,
                   options, useOptions, query, response, promises, joinError,
                   error, fetches, chargeReturned, summary, errorLog, failures>>

\* performMultiModeCleaning, one iteration of the for loop.
CleaningMultiModeDocument ==
    /\ pc = "dispatch"
    /\ useOptions.runMode = "multi"
    /\ docIdx <= Len(response.resources)
    /\ SetState(CountDocument(state), aliased)
    /\ pipelines' = Append(pipelines,
                           NewCleaningPipeline(response.resources[docIdx],
                                               useOptions.dryRun))
    /\ promises' = Append(promises, Len(pipelines) + 1)
    /\ docIdx' = docIdx + 1
    /\ UNCHANGED <<source, logSink, laterCall, calls, dest, destAtStart,
                   options, useOptions, query, pc, response, joinError, error,
                   fetches, chargeReturned, summary, errorLog, failures>>

\* Dry run, backupSingleDocument after its first await: backupDocument gave
\* undefined, checkIfDocumentExists returns true at once,
\* numberOfBackups++, replaceDocumentWithCleanedDocument returns undefined
\* at once, numberOfUpdates++.  No store call is made.
CleaningDryRunCompletes(i) ==
    /\ LoopSuspended
    /\ pipelines[i].status = "dryrun"
    /\ SetState(CountUpdate(CountBackup(state)), aliased)
    /\ pipelines' = [pipelines EXCEPT ![i].status = "fulfilled"]
    /\ pc' = PcAfterPipelineFulfilled(i)
    /\ UNCHANGED <<source, logSink, laterCall, calls, dest, destAtStart,
                   options, useOptions, query, response, docIdx, promises,
                   joinError, error, fetches, chargeReturned, summary,
                   errorLog, failures>>

\* backupDocument after its await: the upsert returned; backupSingleDocument
\* goes on to checkIfDocumentExists, which issues the count query.
CleaningUpsertReturns(i, requestCharge) ==
    /\ LoopSuspended
    /\ pipelines[i].status = "applied"
    /\ chargeReturned' = chargeReturned + requestCharge
    /\ SetState(collectResponseStats(state, requestCharge), aliased)
    /\ pipelines' = [pipelines EXCEPT ![i].status = "checking"]
    /\ UNCHANGED <<source, logSink, laterCall, calls, dest, destAtStart,
                   options, useOptions, query, pc, response, docIdx, promises,
                   joinError, error, fetches, summary, errorLog, failures>>

\* The destination loses the backup of pipeline i between the upsert and
\* the count query (another client deletes it, or its time to live ends).
BackupItemIsDeleted(i) ==
    /\ pipelines[i].status = "checking"
    /\ CountQuery(dest, pipelines[i].doc) > 0
    /\ dest' = { x \in dest : ~(x.id = pipelines[i].doc.id /\ x.pk = pipelines[i].doc.pk) }
    /\ UNCHANGED <<source, logSink, laterCall, calls, destAtStart, options,
                   useOptions, query, state, defaultState, aliased, pc,
                   response, docIdx, pipelines, promises, joinError, error,
                   fetches, chargeReturned, summary, errorLog, failures>>

\* checkIfDocumentExists after its await: the count query returned.  When
\* the backup exists, numberOfBackups++ and the replace is issued; when not,
\* backupSingleDocument ends.
ExistenceQueryReturns(i, requestCharge) ==
    /\ LoopSuspended
    /\ pipelines[i].status = "checking"
    /\ chargeReturned' = chargeReturned + requestCharge
    /\ LET count == CountQuery(dest, pipelines[i].doc)
           counted == collectResponseStats(state, requestCharge)
       IN  IF BackupExists(count)
           THEN /\ SetState(CountBackup(counted), aliased)
                /\ pipelines' = [pipelines EXCEPT ![i].status = "replacing",
                                                  ![i].checked = TRUE,
                                                  ![i].count = count]
                /\ pc' = pc
           ELSE /\ SetState(counted, aliased)
                /\ pipelines' = [pipelines EXCEPT ![i].status = "fulfilled",
                                                  ![i].checked = TRUE,
                                                  ![i].count = count]
                /\ pc' = PcAfterPipelineFulfilled(i)
    /\ UNCHANGED <<source, logSink, laterCall, calls, dest, destAtStart,
                   options, useOptions, query, response, docIdx, promises,
                   joinError, error, fetches, summary, errorLog, failures>>

\* The count query rejected.
ExistenceQueryFails(i) ==
    /\ LoopSuspended
    /\ pipelines[i].status = "checking"
    /\ PipelineRejects(i, ExistenceQueryFailure(pipelines[i].doc))
    /\ UNCHANGED <<source, logSink, laterCall, calls, dest, destAtStart,
                   options, useOptions, query, state, defaultState, aliased,
                   response, docIdx, promises, fetches, chargeReturned,
                   summary>>

\* The source container applies the replace of pipeline i.
StoreAppliesReplace(i) ==
    /\ pipelines[i].status = "replacing"
    /\ source' = Replace(source, pipelines[i].doc,
                         CleanedDocumentOf(DocumentCleaner(pipelines[i].doc)))
    /\ pipelines' = [pipelines EXCEPT ![i].status = "replaced"]
    /\ UNCHANGED <<dest, logSink, laterCall, calls, destAtStart, options,
                   useOptions, query, state, defaultState, aliased, pc,
                   response, docIdx, promises, joinError, error, fetches,
                   chargeReturned, summary, errorLog, failures>>

\* replaceDocumentWithCleanedDocument after its await: the replace returned;
\* backupSingleDocument goes on with numberOfUpdates++ and ends.
ReplaceReturns(i, requestCharge) ==
    /\ LoopSuspended
    /\ pipelines[i].status = "replaced"
    /\ chargeReturned' = chargeReturned + requestCharge
    /\ SetState(CountUpdate(collectResponseStats(state, requestCharge)), aliased)
    /\ pipelines' = [pipelines EXCEPT ![i].status = "fulfilled"]
    /\ pc' = PcAfterPipelineFulfilled(i)
    /\ UNCHANGED <<source, logSink, laterCall, calls, dest, destAtStart,
                   options, useOptions, query, response, docIdx, promises,
                   joinError, error, fetches, summary, errorLog, failures>>

\* The replace rejected.
ReplaceFails(i) ==
    /\ LoopSuspended
    /\ pipelines[i].status \in {"replacing", "replaced"}
    /\ PipelineRejects(i, ReplaceFailure(pipelines[i].doc))
    /\ UNCHANGED <<source, logSink, laterCall, calls, dest, destAtStart,
                   options, useOptions, query, state, defaultState, aliased,
                   response, docIdx, promises, fetches, chargeReturned,
                   summary>>

(* --------------------------- specification ---------------------------- *)

Next ==
    \/ \E opts \in BackupOptions : performBackup(opts)
    \/ \E c \in Charges : FetchNextReturns(c)
    \/ FetchNextFails
    \/ SingleModeDocument
    \/ SingleModePageEnd
    \/ MultiModeDocument
    \/ MultiModeAwaitAll
    \/ PromiseAllResolves
    \/ PromiseAllRejects
    \/ \E i \in 1..Len(pipelines) : StoreAppliesUpsert(i)
    \/ \E i \in 1..Len(pipelines), c \in Charges : UpsertReturns(i, c)
    \/ \E i \in 1..Len(pipelines) : UpsertFails(i)

Spec == Init /\ [][Next]_vars

\* The event loop runs a continuation that is ready, the source answers every
\* fetch and the destination answers every upsert, with a response or a
\* failure.
Fairness ==
    /\ WF_vars(\/ SingleModeDocument
               \/ SingleModePageEnd
               \/ MultiModeDocument
               \/ MultiModeAwaitAll
               \/ PromiseAllResolves
               \/ PromiseAllRejects)
    /\ WF_vars((\E c \in Charges : FetchNextReturns(c)) \/ FetchNextFails)
    /\ WF_vars(\E i \in 1..Len(pipelines) :
                  \/ StoreAppliesUpsert(i)
                  \/ \E c \in Charges : UpsertReturns(i, c)
                  \/ UpsertFails(i))

\* One call of performBackup under a fair event loop and store.
SpecLive == Init /\ [][Next]_vars /\ Fairness

\* Consecutive calls of performBackup on one instance.
NextRuns ==
    \/ Next
    \/ \E opts \in LaterOptions : performBackupAgain(opts)

SpecRuns == Init /\ [][NextRuns]_vars

\* A call of performBackup made while the earlier call is active.  The
\* earlier call is followed on when the later call threw at once; when the
\* later call went on to fetch, two calls use one cursor at a time and the
\* behaviour is followed no further.
NextOverlap ==
    \/ laterCall # "fetch" /\ Next
    \/ \E opts \in LaterOptions : performBackupWhileRunning(opts)

SpecOverlap == Init /\ [][NextOverlap]_vars

\* A run during or before which the log sink starts to fail.
NextLog ==
    \/ Next
    \/ LogSinkBreaks
    \/ \E opts \in BackupOptions : performBackupLogThrows(opts)
    \/ SingleModeDocumentLogThrows
    \/ SingleModePageEndLogThrows
    \/ MultiModeDocumentLogThrows
    \/ PromiseAllResolvesLogThrows
    \/ \E i \in 1..Len(pipelines), c \in Charges : UpsertReturnsLogThrows(i, c)

SpecLog == Init /\ [][NextLog]_vars

\* One call of performDataCleaning on a DatabaseBackup instance.
NextCleaning ==
    \/ \E opts \in BackupOptions : performDataCleaning(opts)
    \/ \E c \in Charges : FetchNextReturns(c)
    \/ FetchNextFails
    \/ CleaningSingleModeDocument
    \/ SingleModePageEnd
    \/ CleaningMultiModeDocument
    \/ MultiModeAwaitAll
    \/ PromiseAllResolves
    \/ PromiseAllRejects
    \/ \E i \in 1..Len(pipelines) : CleaningDryRunCompletes(i)
    \/ \E i \in 1..Len(pipelines) : StoreAppliesUpsert(i)
    \/ \E i \in 1..Len(pipelines), c \in Charges : CleaningUpsertReturns(i, c)
    \/ \E i \in 1..Len(pipelines) : UpsertFails(i)
    \/ \E i \in 1..Len(pipelines) : BackupItemIsDeleted(i)
    \/ \E i \in 1..Len(pipelines), c \in Charges : ExistenceQueryReturns(i, c)
    \/ \E i \in 1..Len(pipelines) : ExistenceQueryFails(i)
    \/ \E i \in 1..Len(pipelines) : StoreAppliesReplace(i)
    \/ \E i \in 1..Len(pipelines), c \in Charges : ReplaceReturns(i, c)
    \/ \E i \in 1..Len(pipelines) : ReplaceFails(i)

SpecCleaning == Init /\ [][NextCleaning]_vars

(* ------------------------------- claims ------------------------------- *)

NumberOfDocuments == Len(source)
Ceil(n, s) == (n + s - 1) \div s
IdsOf(container) == { x.id : x \in container }
SourceIds == { source[i].id : i \in 1..Len(source) }
DistinctIds == \A i, j \in 1..Len(source) : source[i].id = source[j].id => i = j
Pipes == 1..Len(pipelines)
PipesOfPage(k) == { i \in Pipes : pipelines[i].page = k }
SingleMode == useOptions.runMode = "single"
MultiMode == useOptions.runMode = "multi"

\* C1: in a run with dryRun = true, in either mode, no upsert is issued, the
\* destination container stays as it was before the run, and numberOfBackups
\* is 0 in every state.
C1_DryRunWritesNothing ==
    (pc # "idle" /\ useOptions.dryRun = "true") =>
        /\ dest = destAtStart
        /\ state.numberOfBackups = 0
        /\ \A i \in Pipes : pipelines[i].status = "dry"

C1_Witness ==
    /\ useOptions.dryRun = "true"
    /\ MultiMode
    /\ pc = "done"
    /\ fetches >= 2
    /\ Len(pipelines) >= 2
    /\ destAtStart # {}

\* C2 as stated: a run that ends without failure made exactly ceil(N/S)
\* page fetches and looked at N documents, for every N >= 0.
C2_Original ==
    pc = "done" =>
        /\ fetches = Ceil(NumberOfDocuments, useOptions.pageSize)
        /\ state.numberOfDocumentsLookedAt = NumberOfDocuments

\* C2, amended: a run that ends without failure made exactly ceil(N/S) page
\* fetches when N >= 1 and exactly one page fetch when N = 0, and looked at
\* N documents.
C2_PageExhaustion ==
    pc = "done" =>
        /\ fetches = IF NumberOfDocuments = 0 THEN 1
                     ELSE Ceil(NumberOfDocuments, useOptions.pageSize)
        /\ state.numberOfDocumentsLookedAt = NumberOfDocuments

C2_Witness ==
    /\ pc = "done"
    /\ NumberOfDocuments > useOptions.pageSize
    /\ fetches >= 2
    /\ state.numberOfDocumentsLookedAt = NumberOfDocuments

\* C3: after a run with dryRun = false that ended without failure over N
\* documents with distinct ids, numberOfBackups is N and the destination holds
\* for every source document an item with the same id whose idOriginal is
\* that id and whose backupJobName is the job name.
C3_BackupsWritten ==
    (pc = "done" /\ useOptions.dryRun = "false" /\ DistinctIds) =>
        /\ state.numberOfBackups = NumberOfDocuments
        /\ \A i \in 1..Len(source) :
              \E b \in dest : /\ b.id = source[i].id
                              /\ b.idOriginal = source[i].id
                              /\ b.backupJobName = JobName

C3_Witness ==
    /\ pc = "done"
    /\ useOptions.dryRun = "false"
    /\ NumberOfDocuments >= 2
    /\ fetches >= 2
    /\ PriorBackup \in destAtStart
    /\ PriorBackup \notin dest

\* What a run that ends without failure leaves, from the source, the
\* destination before the run and dryRun alone (not from the run mode):
\* numberOfBackups, numberOfUpdates, numberOfDocumentsLookedAt and the ids in
\* the destination.
OutcomeOfInputs ==
    IF Truthy(useOptions.dryRun)
    THEN <<0, 0, NumberOfDocuments, IdsOf(destAtStart)>>
    ELSE <<NumberOfDocuments, 0, NumberOfDocuments,
           IdsOf(destAtStart) \cup SourceIds>>

\* C4: a single-mode run and a multi-mode run over the same source, page
\* size and dryRun, without failure, end with the same numberOfBackups,
\* numberOfUpdates, numberOfDocumentsLookedAt and destination ids, in every
\* order of completion of the upserts: both end with the outcome the inputs
\* determine.
C4_ModeEquivalence ==
    pc = "done" =>
        <<state.numberOfBackups, state.numberOfUpdates,
          state.numberOfDocumentsLookedAt, IdsOf(dest)>> = OutcomeOfInputs

C4_Witness ==
    /\ pc = "done"
    /\ MultiMode
    /\ useOptions.dryRun = "false"
    /\ Len(promises) >= 3
    /\ fetches >= 2
    /\ state.numberOfBackups = NumberOfDocuments

\* C5: totalUsedRU is the sum of the request charges of the store operations
\* that returned a response (page fetches, also of empty pages, and upserts),
\* in every state: at the end of the run, and while a page whose fetch
\* returned is being dispatched.
C5_CostAccounting == state.totalUsedRU = chargeReturned

C5_Witness ==
    /\ pc = "done"
    /\ fetches >= 2
    /\ state.numberOfBackups >= 2
    /\ state.totalUsedRU > fetches + state.numberOfBackups

\* C6: multi mode, dryRun = false: when exactly one pipeline of a page
\* rejected and the others are settled, the run rejects (Promise.all has
\* rejected and performBackup never resolves or goes on to another page) and
\* the backup of every other document of the page is in the destination.
C6_FailureIsolation ==
    \A k \in 1..state.currentPage :
        ( /\ MultiMode
          /\ useOptions.dryRun = "false"
          /\ pc # "dispatch"
          /\ \A i \in PipesOfPage(k) : Settled(pipelines[i])
          /\ Cardinality({ i \in PipesOfPage(k) :
                             pipelines[i].status = "rejected" }) = 1 )
        => /\ pc \in {"join", "failed"}
           /\ pc = "join" => joinError # NoError
           /\ pc = "failed" => error.kind = "upsert failed"
           /\ k = state.currentPage
           /\ \A i \in PipesOfPage(k) :
                 pipelines[i].status = "fulfilled" =>
                     BackupDocumentOf(pipelines[i].doc) \in dest

C6_Witness ==
    /\ MultiMode
    /\ useOptions.dryRun = "false"
    /\ pc = "failed"
    /\ Cardinality(PipesOfPage(state.currentPage)) = 3
    /\ Cardinality({ i \in Pipes : pipelines[i].status = "rejected" }) = 1
    /\ Cardinality({ i \in Pipes : pipelines[i].status = "fulfilled" }) = 2
    /\ \A i \in Pipes : pipelines[i].status = "fulfilled" =>
           BackupDocumentOf(pipelines[i].doc) \in dest

\* C7: multi mode: when performBackup has rejected, every pipeline of the
\* run is settled: no upsert is still in flight.
C7_NoWorkAfterFailed ==
    (MultiMode /\ pc = "failed") => \A i \in Pipes : Settled(pipelines[i])

\* C8: multi mode: a pipeline of an earlier page than the current one is
\* settled, and while a page fetch is in flight every pipeline is settled.
C8_PageBarrier ==
    MultiMode =>
        /\ \A i \in Pipes :
              pipelines[i].page < state.currentPage => Settled(pipelines[i])
        /\ pc = "fetch" => \A i \in Pipes : Settled(pipelines[i])

C8_Witness ==
    /\ MultiMode
    /\ useOptions.dryRun = "false"
    /\ state.currentPage = 2
    /\ \E i \in Pipes : pipelines[i].page = 2 /\ InFlight(pipelines[i])
    /\ Cardinality(PipesOfPage(1)) = 2
    /\ \A i \in PipesOfPage(1) : pipelines[i].status = "fulfilled"

\* C9: single mode: pipelines start in source order, only the last one
\* started can be unsettled, and while it is the loop is waiting for its
\* upsert: no other document is dispatched and no page is fetched.
C9_SingleModeSequential ==
    SingleMode =>
        /\ \A i \in Pipes : pipelines[i].doc = source[i]
        /\ \A i \in Pipes : i < Len(pipelines) => Settled(pipelines[i])
        /\ (\E i \in Pipes : ~Settled(pipelines[i])) => pc = "upsert"

C9_Witness ==
    /\ SingleMode
    /\ useOptions.dryRun = "false"
    /\ pc = "upsert"
    /\ state.currentPage = 2
    /\ Len(pipelines) = 3
    /\ InFlight(pipelines[3])

\* C10: single mode: when the upsert of a document fails, performBackup has
\* rejected with that error and the backups of the documents before it are in
\* the destination; once it has rejected, no counter, no destination item, no
\* pipeline and no fetch changes any more.
C10_SingleModeAbort ==
    /\ [](SingleMode =>
            \A i \in Pipes :
                pipelines[i].status = "rejected" =>
                    /\ pc = "failed"
                    /\ error = UpsertFailure(pipelines[i].doc)
                    /\ i = Len(pipelines)
                    /\ \A j \in 1..(i - 1) :
                          BackupDocumentOf(pipelines[j].doc) \in dest)
    /\ [][(SingleMode /\ pc = "failed") =>
            UNCHANGED <<state, dest, pipelines, fetches, query, pc, error>>]_vars

C10_Witness ==
    /\ SingleMode
    /\ pc = "failed"
    /\ error.kind = "upsert failed"
    /\ state.numberOfBackups >= 1
    /\ Len(pipelines) < NumberOfDocuments

\* C11: a call with a runMode that is neither "single" nor "multi" has
\* rejected with the invalid-run-mode error, with no page fetch, no pipeline
\* and no upsert, and with the counters and the destination as they were.
C11_InvalidRunModeRejects ==
    (pc # "idle" /\ useOptions.runMode \notin {"single", "multi"}) =>
        /\ pc = "failed"
        /\ error = InvalidRunMode
        /\ fetches = 0
        /\ chargeReturned = 0
        /\ pipelines = <<>>
        /\ state = ZeroState
        /\ dest = destAtStart

C11_Witness ==
    /\ pc = "failed"
    /\ error = InvalidRunMode
    /\ useOptions.runMode = "batch"
    /\ useOptions.dryRun = "false"
    /\ NumberOfDocuments >= 1

\* C12: when a run has failed on a page fetch or on a document pipeline, the
\* summary of the statistics accumulated so far has been emitted.
C12_SummaryOnFailure ==
    (pc = "failed" /\ error.kind \in {"fetchNext failed", "upsert failed"}) =>
        summary.emitted

\* C13: once a failed run has settled, every failure the store answered with
\* has been passed to the error sink, and any such failure makes the run
\* reject.
C13_EveryFailureLogged ==
    (failures # {} /\ pc # "join" /\ \A i \in Pipes : Settled(pipelines[i])) =>
        /\ pc = "failed"
        /\ failures \subseteq errorLog

\* C14: a call whose options give dryRun no value (absent or undefined) writes
\* nothing to the destination, one that gives runMode no value runs in single
\* mode, and one that gives pageSize no value uses a page size of 100.
C14_DefaultsWhenUnset ==
    pc # "idle" =>
        /\ options.dryRun \in {<<>>, <<"undefined">>} =>
              /\ dest = destAtStart
              /\ \A i \in Pipes : pipelines[i].status = "dry"
        /\ options.runMode \in {<<>>, <<"undefined">>} =>
              /\ useOptions.runMode = "single"
              /\ error # InvalidRunMode
        /\ options.pageSize = <<>> => useOptions.pageSize = DefaultPageSize

\* C17: a page fetch after the first is only in flight when the page before
\* it had hasMoreResults = true; a run that resolved has dispatched every
\* document of a last page with hasMoreResults = false; and once such a page
\* has been returned, no further fetchNext call is made.
C17_NoFetchAfterExhaustion ==
    /\ []((pc = "fetch" /\ fetches > 1) =>
            (response.hasMoreResults /\ query.pos < Len(source)))
    /\ [](pc = "done" =>
            /\ ~response.hasMoreResults
            /\ docIdx > Len(response.resources)
            /\ Len(pipelines) = NumberOfDocuments)
    /\ [][(pc \notin {"idle", "fetch"} /\ ~response.hasMoreResults) =>
            fetches' = fetches]_vars

C17_Witness ==
    /\ pc = "done"
    /\ MultiMode
    /\ fetches = 2
    /\ ~response.hasMoreResults
    /\ Len(response.resources) = 1

\* C18: when a page fetch failed, the run has rejected with that error, every
\* pipeline started before is fulfilled, and nothing is fetched or dispatched
\* afterwards (no retry); a page fetch is only in flight when every pipeline
\* started so far is fulfilled.
C18_FetchFailureAborts ==
    /\ [](FetchFailure \in failures =>
            /\ pc = "failed"
            /\ error = FetchFailure
            /\ \A i \in Pipes : Fulfilled(pipelines[i]))
    /\ [](pc = "fetch" => \A i \in Pipes : Fulfilled(pipelines[i]))
    /\ [][(FetchFailure \in failures) =>
            UNCHANGED <<fetches, pipelines, state, dest, query, pc, error>>]_vars

C18_Witness ==
    /\ MultiMode
    /\ pc = "failed"
    /\ error = FetchFailure
    /\ fetches = 2
    /\ state.numberOfBackups = 2

\* C19: numberOfBackups is the number of upserts of the run that returned a
\* response, in every state, mode and order of completion; a rejected upsert
\* adds nothing.
C19_BackupsCounted ==
    state.numberOfBackups =
        Cardinality({ i \in Pipes : pipelines[i].status = "fulfilled" })

C19_Witness ==
    /\ MultiMode
    /\ state.numberOfBackups = 2
    /\ \E i \in Pipes : pipelines[i].status = "rejected"
    /\ \E i \in Pipes : /\ pipelines[i].status = "fulfilled"
                         /\ \E j \in 1..(i - 1) : pipelines[j].status = "rejected"

\* C16: over consecutive calls of performBackup on one instance, each
\* resolved or rejected, defaultState keeps its all-zero values in every
\* state, and every call that reaches its first page fetch begins it with
\* all counters zero: the step that resets the state and enters fetchNextPage
\* leaves all-zero counters with the page counter at 1, the increment
\* fetchNextPage itself makes before it asks the store.
C16_CountersZeroAtFirstFetch ==
    /\ [](defaultState = ZeroState)
    /\ [][(calls' = calls + 1 /\ pc' = "fetch") =>
              state' = [ZeroState EXCEPT !.currentPage = 1]]_vars

C16_Witness ==
    /\ calls = 2
    /\ pc = "fetch"
    /\ ~aliased
    /\ fetches = 1
    /\ \E b \in destAtStart : b # PriorBackup

\* C15: a call of performBackup made while an earlier call on the instance
\* has not finished leaves the counters (this.state) and the cursor
\* (this.query) of the earlier run as they were.
C15_RunStateNotShared ==
    [][(pc \in {"upsert", "join"} /\ calls' = calls + 1) =>
          (state' = state /\ query' = query)]_vars

\* C20: a failure of the log sink during a run never aborts the run: a run
\* that asked for its first page and in which the store answered every fetch
\* and every upsert does not end rejected.
C20_LogFailureNeverAborts ==
    ~(pc = "failed" /\ fetches >= 1 /\ failures = {})

\* Number of documents of page k of the run's query.
DocsOfPage(k) ==
    LET before == (k - 1) * useOptions.pageSize
    IN  IF before >= NumberOfDocuments THEN 0
        ELSE Min(useOptions.pageSize, NumberOfDocuments - before)

\* C24: in multi mode with dryRun = false, when the response of an upsert of
\* a page has been processed (its pipeline is fulfilled or rejected), the
\* upserts of all documents of that page were issued and
\* numberOfDocumentsLookedAt counts all of them; the number of upserts in
\* flight never exceeds the number of documents of the current page.
C24_PageLaunchedBeforeResponses ==
    (MultiMode /\ useOptions.dryRun = "false") =>
        /\ \A i \in Pipes :
              pipelines[i].status \in {"fulfilled", "rejected"} =>
                 LET k == pipelines[i].page
                 IN  /\ Cardinality(PipesOfPage(k)) = DocsOfPage(k)
                     /\ \A j \in PipesOfPage(k) : pipelines[j].status # "dry"
                     /\ state.numberOfDocumentsLookedAt >=
                            Min(NumberOfDocuments, k * useOptions.pageSize)
        /\ Cardinality({ i \in Pipes : InFlight(pipelines[i]) })
              <= Len(response.resources)

C24_Witness ==
    /\ MultiMode
    /\ useOptions.dryRun = "false"
    /\ Len(response.resources) = 3
    /\ \E i \in Pipes : pipelines[i].status = "fulfilled"
    /\ Cardinality({ i \in Pipes : InFlight(pipelines[i]) }) = 2

\* C26: in every state of a run currentPage is the number of page fetches
\* attempted so far, a failed fetch and a fetch in flight included, and the
\* page count of the summary of a successful run is the number of fetches
\* made.
C26_PageCounterIsFetches ==
    /\ state.currentPage = fetches
    /\ summary.emitted => summary.stats.currentPage = fetches

C26_Witness ==
    /\ SingleMode
    /\ pc = "failed"
    /\ error = FetchFailure
    /\ fetches = 3
    /\ state.currentPage = 3

\* C27: in every state of a run, in both modes, numberOfDocumentsLookedAt
\* equals currentDocument and numberOfBackups is at most
\* numberOfDocumentsLookedAt.
C27_LookedAtIsCurrentDocument ==
    /\ state.numberOfDocumentsLookedAt = state.currentDocument
    /\ state.numberOfBackups <= state.numberOfDocumentsLookedAt

C27_Witness ==
    /\ MultiMode
    /\ state.currentDocument = 3
    /\ state.numberOfBackups = 3
    /\ fetches >= 2

\* C28: in the backup workflow numberOfUpdates, numberOfSuccessfulTests and
\* numberOfUnsuccessfulTests are 0 in every state, the source container is
\* never written, and the destination changes only by the upsert of the
\* backup document of a document the run dispatched.
C28_BackupFrame ==
    /\ [](/\ state.numberOfUpdates = 0
          /\ state.numberOfSuccessfulTests = 0
          /\ state.numberOfUnsuccessfulTests = 0)
    /\ [][source' = source]_vars
    /\ [][(dest' # dest) =>
            \E i \in Pipes :
               dest' = Upsert(dest, BackupDocumentOf(pipelines[i].doc))]_vars

C28_Witness ==
    /\ pc = "done"
    /\ useOptions.dryRun = "false"
    /\ state.numberOfBackups >= 2
    /\ dest # destAtStart
    /\ state.totalUsedRU > 0

\* C23: when every store call returns or fails and the event loop runs what
\* is ready, a run that is fetching, dispatching or waiting for upserts, in
\* either mode, eventually resolves (done) or rejects (failed).
C23_RunTerminates ==
    (pc \in {"fetch", "dispatch", "upsert", "join"}) ~> (pc \in {"done", "failed"})

C23_Witness ==
    /\ pc = "done"
    /\ SingleMode
    /\ useOptions.dryRun = "false"
    /\ fetches = 3
    /\ state.numberOfBackups = 3

\* The (id, partition key) pairs of the items of a container, and of the
\* documents of the source.
KeysOf(container) == { <<x.id, x.pk>> : x \in container }
SourceKeys == { <<source[i].id, source[i].pk>> : i \in 1..Len(source) }

\* C25: a successful run with dryRun = false hands the next call a
\* destination that holds an item for the (id, partition key) of every source
\* document, and a successful run with dryRun = false that starts from such a
\* destination ends with the same set of (id, partition key) pairs and the
\* same number of items: it overwrites the backups and adds none.
C25_RerunAddsNothing ==
    /\ [][(calls' = calls + 1 /\ pc = "done" /\ useOptions.dryRun = "false") =>
              SourceKeys \subseteq KeysOf(destAtStart')]_vars
    /\ []((/\ calls = 2
           /\ pc = "done"
           /\ useOptions.dryRun = "false"
           /\ SourceKeys \subseteq KeysOf(destAtStart)) =>
              /\ KeysOf(dest) = KeysOf(destAtStart)
              /\ Cardinality(dest) = Cardinality(destAtStart))

C25_Witness ==
    /\ calls = 2
    /\ pc = "done"
    /\ useOptions.dryRun = "false"
    /\ NumberOfDocuments = 3
    /\ state.numberOfBackups = 3
    /\ Len(pipelines) = 3
    /\ \A i \in 1..Len(source) : BackupDocumentOf(source[i]) \in destAtStart
    /\ KeysOf(dest) = KeysOf(destAtStart)

\* The pipelines of the cleaning workflow whose existence check returned a
\* count of exactly 1, and those whose check returned another count.
CheckPassed(i) == pipelines[i].checked /\ pipelines[i].count = 1
CheckNotPassed(i) == pipelines[i].checked /\ pipelines[i].count # 1

\* C21: in the cleaning workflow with dryRun = false, a replace is issued
\* only by a pipeline whose upsert returned and whose existence query
\* returned a count of exactly 1, a source document is replaced only by such
\* a pipeline, a pipeline whose check did not pass ends without a replace and
\* leaves its source document as it was, and numberOfUpdates counts the
\* pipelines whose check passed and whose replace returned.
C21_ReplaceOnlyAfterVerifiedBackup ==
    useOptions.dryRun = "false" =>
        /\ \A i \in Pipes :
              pipelines[i].status \in {"replacing", "replaced"} => CheckPassed(i)
        /\ \A k \in 1..Len(source) :
              source[k] # SourceDoc(k) =>
                 \E i \in Pipes : pipelines[i].doc = SourceDoc(k) /\ CheckPassed(i)
        /\ \A i \in Pipes :
              CheckNotPassed(i) =>
                 /\ pipelines[i].status = "fulfilled"
                 /\ \A k \in 1..Len(source) :
                       pipelines[i].doc = SourceDoc(k) => source[k] = SourceDoc(k)
        /\ state.numberOfUpdates =
              Cardinality({ i \in Pipes : /\ pipelines[i].status = "fulfilled"
                                          /\ CheckPassed(i) })

C21_Witness ==
    /\ useOptions.dryRun = "false"
    /\ pc = "done"
    /\ state.numberOfUpdates = 1
    /\ \E i \in Pipes : /\ pipelines[i].status = "fulfilled"
                         /\ CheckPassed(i)
                         /\ \E k \in 1..Len(source) :
                               /\ pipelines[i].doc = SourceDoc(k)
                               /\ source[k] = CleanedDocumentOf(DocumentCleaner(SourceDoc(k)))
    /\ \E j \in Pipes : /\ CheckNotPassed(j)
                         /\ \E k \in 1..Len(source) :
                               /\ pipelines[j].doc = SourceDoc(k)
                               /\ source[k] = SourceDoc(k)

\* C22: in the cleaning workflow with dryRun = true the write counters
\* numberOfBackups and numberOfUpdates stay 0 in every state.
C22_DryRunCountsNoWrites ==
    useOptions.dryRun = "true" =>
        /\ state.numberOfBackups = 0
        /\ state.numberOfUpdates = 0
====
